---- MODULE Spec2Model ----
(***************************************************************************)
(* Model of the bounded conversation context manager of the AI platform    *)
(* backend: ContextManager (context/contextManager.ts), the context rows   *)
(* of DatabaseManager, GeminiClient.countTokens and the routes that create *)
(* sessions and projects.  Calls suspend at their await points; every      *)
(* action below is the code that runs between two suspensions.             *)
(***************************************************************************)
EXTENDS Integers, Sequences, FiniteSets, TLC

VARIABLES
    settings,        \* the configuration read at start-up
    nextIds,         \* numbers of the next context, session and project created
    sessions,        \* chat_sessions rows, by session id
    projects,        \* projects rows, by project id
    contexts,        \* contexts rows, by context id
    recency,         \* the updated_at column of contexts, kept up to order
    nextMsgId,       \* number of the next message handed to addMessage
    nextSumId,       \* number of the next summary generated
    procs,           \* the calls in progress, one per caller
    returned,        \* history: context ids get-or-create returned, per owner
    summarizeCalls,  \* history: summarizeContext calls of addMessage per context since its last reset
    appended,        \* history: tokens counted by addMessage per context since its last reset
    acked,           \* history: messages whose addMessage returned, per context since its last reset
    lastFailed,      \* history: the last message whose addMessage threw, per context
    pendingCommands, \* CommandTools.pendingCommands, by command id
    nextCmdId,       \* number of the next pending command
    runs,            \* history: the commands handed to the shell, in order
    cmdResult,       \* the outcome of the last executeConfirmedCommand call
    secondaryClient, \* GeminiClient.secondaryClient is set (a secondary key is configured)
    currentApiKey,   \* GeminiClient.currentApiKey
    genCalls,        \* the generateResponse calls, by call number
    route,           \* the send-message request in progress
    tasks,           \* tasks rows, by task id
    analyses         \* the analyzeProject calls, by call number

\* the state of CommandTools
cmdVars == <<pendingCommands, nextCmdId, runs, cmdResult>>

\* the state of GeminiClient
genVars == <<secondaryClient, currentApiKey, genCalls>>

\* the state of the send-message route and of the coordinator's tasks
appVars == <<route, tasks, analyses>>

\* the state of the context manager and its store
ctxVars == <<settings, nextIds, sessions, projects, contexts, recency, nextMsgId, nextSumId,
             procs, returned, summarizeCalls, appended, acked, lastFailed>>

vars == <<settings, nextIds, sessions, projects, contexts, recency, nextMsgId, nextSumId,
          procs, returned, summarizeCalls, appended, acked, lastFailed,
          pendingCommands, nextCmdId, runs, cmdResult, secondaryClient, currentApiKey, genCalls,
          route, tasks, analyses>>

----------------------------------------------------------------------------
(* Bounds of the model                                                     *)

MaxAdds == 2
\* summaries generated before the last summarizeContext call made by itself
MaxDirectSummaries == 2
MaxSeqAdds == 5
MaxScenarioAdds == 20
\* sessions created where only sessions are created
MaxSessions == 1
\* sessions and projects created where both are created
MaxOwners == 3

Procs == {"p1", "p2"}
SeqProcs == {"p1"}

MaxIds == IF MaxSessions < MaxOwners THEN MaxOwners ELSE MaxSessions
SessionIds == 1..MaxIds
ProjectIds == 1..MaxIds
\* every owner is created with a context, and a session that lost its
\* context gets one more
ContextIds == 1..(2 * MaxIds)

----------------------------------------------------------------------------
(* Program constants                                                       *)

\* settings.contextSummarizationThreshold, '0.9' as the fraction 9/10
ThresholdNum == 9
ThresholdDen == 10
\* context.messages.slice(-10)
RecentCount == 10
\* Math.ceil(totalChars / 4)
CharsPerToken == 4
\* '[CONTEXT SUMMARY]\n' (18 chars) + summary + '\n\n[RECENT MESSAGES FOLLOW]' (26 chars)
SummaryWrapLen == 44
\* an absent optional value: undefined sessionId/projectId, undefined tokens
None == 0
NoTokens == -1

----------------------------------------------------------------------------
(* Values                                                                  *)

\* Context.summary: undefined/null, or a text identified by the generation
\* call that produced it, with its length
NullSummary == [set |-> FALSE, id |-> 0, len |-> 0]

NullMessage == [id |-> 0, role |-> "none", len |-> 0, tokens |-> NoTokens,
                synthetic |-> FALSE]

NullContext == [id |-> 0, sessionId |-> None, projectId |-> None, messages |-> <<>>,
                summary |-> NullSummary, totalTokens |-> 0, maxTokens |-> 0]

IdleProc == [pc |-> "idle", ctxId |-> 0, context |-> NullContext,
             message |-> NullMessage, sctx |-> NullContext,
             summary |-> NullSummary, summaryMessage |-> NullMessage,
             pre |-> NullContext, prompt |-> <<>>, hasSummary |-> FALSE,
             sessionId |-> None, projectId |-> None]

\* no executeConfirmedCommand call has been made
\* the values of error.code and of exitCode: a number, a text, or undefined
Number(n) == [type |-> "number", value |-> n, text |-> ""]
Text(t) == [type |-> "string", value |-> 0, text |-> t]
Undefined == [type |-> "undefined", value |-> 0, text |-> ""]

NoResult == [id |-> None, outcome |-> "none", exitCode |-> Number(0)]

\* no send-message request is in progress
NoRoute == [pc |-> "none", sessionId |-> None, context |-> NullContext, from |-> 0,
            stats |-> [totalTokens |-> 0, messagesCount |-> 0]]

\* outcomes of the external token counting call: a count, a response
\* without totalTokens, or an exception
ExtOk(n) == [ok |-> TRUE, n |-> n]
ExtFail == [ok |-> FALSE, n |-> 0]

\* outcomes of the external generation call behind gemini.summarizeContext
GenOk(len) == [ok |-> TRUE, len |-> len]
GenFail == [ok |-> FALSE, len |-> 0]

----------------------------------------------------------------------------
(* Pure helpers                                                            *)

CeilDiv(a, b) == (a + b - 1) \div b

RECURSIVE SumLen(_)
SumLen(ms) == IF ms = <<>> THEN 0 ELSE Head(ms).len + SumLen(Tail(ms))

\* (msg.tokens || 0)
TokensOf(m) == IF m.tokens = NoTokens THEN 0 ELSE m.tokens

\* messages.reduce((sum, msg) => sum + (msg.tokens || 0), 0)
RECURSIVE SumTokens(_)
SumTokens(ms) == IF ms = <<>> THEN 0 ELSE TokensOf(Head(ms)) + SumTokens(Tail(ms))

Last(ms) == ms[Len(ms)]

\* Array.prototype.slice(-n) for n > 0
SliceLast(ms, n) == IF Len(ms) <= n THEN ms ELSE SubSeq(ms, Len(ms) - n + 1, Len(ms))

\* GeminiClient.messagesToContent: system messages are filtered out
messagesToContent(ms) == SelectSeq(ms, LAMBDA m : m.role # "system")

\* countTokens without the catch block: a failure of the external call
\* leaves no count
countTokensNoFallback(ms, ext) ==
    LET contents == messagesToContent(ms)
    IN  IF ext.ok
        THEN IF ext.n = NoTokens THEN 0 ELSE ext.n
        ELSE NoTokens

\* GeminiClient.countTokens: the external count of the converted contents
\* (result.totalTokens || 0), or on an exception ceil(totalChars / 4) over
\* all the messages given
countTokens(ms, ext) ==
    LET contents == messagesToContent(ms)
    IN  IF ext.ok
        THEN IF ext.n = NoTokens THEN 0 ELSE ext.n
        ELSE CeilDiv(SumLen(ms), CharsPerToken)

\* the double (totalTokens / maxTokens) * 100, written by its operands and
\* its class: 0 / 0 is NaN, and a division of another number by 0 is
\* Infinity or -Infinity
percentageUsed(totalTokens, maxTokens) ==
    [dividend |-> totalTokens,
     divisor |-> maxTokens,
     times |-> 100,
     class |-> IF maxTokens # 0 THEN "finite"
               ELSE IF totalTokens = 0 THEN "NaN"
               ELSE IF totalTokens > 0 THEN "Infinity"
               ELSE "-Infinity"]

\* percentage >= settings.contextSummarizationThreshold * 100: false for
\* NaN; for a finite percentage the comparison of the doubles agrees with
\* the comparison of the fractions
AtLeastThreshold(percentage) ==
    CASE percentage.class = "NaN" -> FALSE
      [] percentage.class = "Infinity" -> TRUE
      [] percentage.class = "-Infinity" -> FALSE
      [] percentage.divisor > 0 ->
            percentage.dividend * ThresholdDen >= ThresholdNum * percentage.divisor
      [] OTHER ->
            percentage.dividend * ThresholdDen <= ThresholdNum * percentage.divisor

\* getContextStats with a strict comparison against the threshold
getContextStatsStrict(context) ==
    [totalTokens |-> context.totalTokens,
     maxTokens |-> context.maxTokens,
     percentageUsed |-> percentageUsed(context.totalTokens, context.maxTokens),
     needsSummarization |->
         /\ AtLeastThreshold(percentageUsed(context.totalTokens, context.maxTokens))
         /\ context.totalTokens * ThresholdDen # ThresholdNum * context.maxTokens,
     messagesCount |-> Len(context.messages)]

\* ContextManager.getContextStats
getContextStats(context) ==
    [totalTokens |-> context.totalTokens,
     maxTokens |-> context.maxTokens,
     percentageUsed |-> percentageUsed(context.totalTokens, context.maxTokens),
     needsSummarization |->
         AtLeastThreshold(percentageUsed(context.totalTokens, context.maxTokens)),
     messagesCount |-> Len(context.messages)]

----------------------------------------------------------------------------
(* DatabaseManager: the contexts table                                     *)

\* DatabaseManager.getContext
dbHasContext(id) == id \in DOMAIN contexts

\* recency lists the context ids in groups of equal updated_at, oldest
\* first.  Date.now() never goes back, so a write is stamped either with
\* the latest updated_at written so far (tie, within the same millisecond)
\* or with a later one.
Compact(groups) == SelectSeq(groups, LAMBDA g : g # {})

Without(groups, c) == [i \in 1..Len(groups) |-> groups[i] \ {c}]

\* updated_at = Date.now() on the row of context c
Touch(groups, c, tie) ==
    IF tie /\ groups # <<>>
    THEN Compact(SubSeq(Without(groups, c), 1, Len(groups) - 1))
             \o <<groups[Len(groups)] \cup {c}>>
    ELSE Compact(Without(groups, c)) \o <<{c}>>

\* rows a 'ORDER BY updated_at DESC LIMIT 1' query may return: the matching
\* rows with the greatest updated_at (SQLite may pick any of a tie)
Latest(ids) ==
    IF ids = {} THEN {}
    ELSE LET hit == {i \in 1..Len(recency) : recency[i] \cap ids # {}}
             top == CHOOSE i \in hit : \A j \in hit : j <= i
         IN  recency[top] \cap ids

\* DatabaseManager.getContextBySession
dbGetContextBySession(sessionId) ==
    Latest({c \in DOMAIN contexts : contexts[c].sessionId = sessionId})

\* DatabaseManager.getContextByProject
dbGetContextByProject(projectId) ==
    Latest({c \in DOMAIN contexts : contexts[c].projectId = projectId})

\* an UPDATE that also rewrites the owner and budget columns from the patch
dbUpdateMessagesAllColumns(row, messages, totalTokens) ==
    [row EXCEPT !.messages = messages, !.totalTokens = totalTokens,
                !.projectId = None, !.maxTokens = 0]

\* DatabaseManager.updateContext with {messages, totalTokens}
dbUpdateMessages(row, messages, totalTokens) ==
    [row EXCEPT !.messages = messages, !.totalTokens = totalTokens]

\* DatabaseManager.updateContext with {messages, summary, totalTokens}; a
\* field whose value is undefined is left out of the UPDATE
dbUpdateSummarized(row, messages, summary, totalTokens) ==
    [row EXCEPT !.messages = messages,
                !.summary = IF summary.set THEN summary ELSE @,
                !.totalTokens = totalTokens]

\* a context stored without the session it was created for
NewContextNoSession(id, sessionId, projectId) ==
    [id |-> id, sessionId |-> None, projectId |-> projectId, messages |-> <<>>,
     summary |-> NullSummary, totalTokens |-> 0,
     maxTokens |-> settings.maxContextTokens]

\* ContextManager.createContext + DatabaseManager.createContext
NewContext(id, sessionId, projectId) ==
    [id |-> id, sessionId |-> sessionId, projectId |-> projectId, messages |-> <<>>,
     summary |-> NullSummary, totalTokens |-> 0,
     maxTokens |-> settings.maxContextTokens]

Extend(f, k, v) == [x \in DOMAIN f \cup {k} |-> IF x = k THEN v ELSE f[x]]

\* uuidv4(): an id that no row has or had
FreshContextId == nextIds.context
FreshSessionId == nextIds.session
FreshProjectId == nextIds.project

----------------------------------------------------------------------------
(* Inputs                                                                  *)

\* content lengths of the messages callers append
LenChoices == {21}
\* outcomes of the external token counting call
ExtOutcomes == {ExtOk(90), ExtFail}
\* outcomes of the summary generation: a summary text of some length, or an error
GenOutcomes == {GenOk(12), GenFail}

\* sequential callers: more token counts, against the same budget of 100
SeqExtOutcomes == {ExtOk(5), ExtOk(42), ExtFail}

\* callers of the whole interface: token counts that cross the budget of
\* 100 at once, and summary generations that return an empty text
ApiExtOutcomes == {ExtOk(90), ExtFail}
ApiGenOutcomes == {GenOk(0), GenOk(12), GenFail}
\* and, for the callers of every operation, a count that is missing from the
\* answer of the counting call, and a MAX_CONTEXT_TOKENS of 0
AnyExtOutcomes == {ExtOk(NoTokens), ExtOk(90), ExtFail}
AnyMaxTokensChoices == {0, 100}
MaxTokensChoices == {100}

\* the scenario of 60-token turns against a budget of 1000
ScenarioLenChoices == {240}
ScenarioExtOutcomes == {ExtOk(60), ExtFail}
ScenarioGenOutcomes == {GenOk(16), GenFail}
ScenarioMaxTokensChoices == {1000}

----------------------------------------------------------------------------
(* Initial state: an empty database, no call in progress                   *)

InitAll(maxTokensChoices, secondaryChoices) ==
    /\ settings \in {[maxContextTokens |-> m] : m \in maxTokensChoices}
    /\ nextIds = [context |-> 1, session |-> 1, project |-> 1]
    /\ sessions = <<>>
    /\ projects = <<>>
    /\ contexts = <<>>
    /\ recency = <<>>
    /\ nextMsgId = 1
    /\ nextSumId = 1
    /\ procs = [p \in Procs |-> IdleProc]
    /\ returned = [session |-> [s \in SessionIds |-> {}],
                   project |-> [r \in ProjectIds |-> {}]]
    /\ summarizeCalls = [c \in ContextIds |-> 0]
    /\ appended = [c \in ContextIds |-> 0]
    /\ acked = [c \in ContextIds |-> {}]
    /\ lastFailed = [c \in ContextIds |-> 0]
    /\ pendingCommands = <<>>
    /\ nextCmdId = 1
    /\ runs = <<>>
    /\ cmdResult = NoResult
    /\ secondaryClient \in secondaryChoices
    /\ currentApiKey = "primary"
    /\ genCalls = <<>>
    /\ route = NoRoute
    /\ tasks = <<>>
    /\ analyses = <<>>

\* GEMINI_API_KEY_SECONDARY is optional and absent by default
InitWith(maxTokensChoices) == InitAll(maxTokensChoices, {FALSE})

Init == InitWith(MaxTokensChoices)

Idle(p) == procs[p].pc = "idle"

----------------------------------------------------------------------------
(* Routes that create owners                                               *)

\* POST /api/chat/sessions: db.createSession(session), then
\* contextManager.createContext(session.id, projectId).  The foreign key on
\* project_id rejects a session for a project that does not exist.
CreateSession(p, projectId, tie, owners) ==
    /\ Idle(p)
    /\ Cardinality(DOMAIN sessions) + Cardinality(DOMAIN projects) < owners
    /\ projectId = None \/ projectId \in DOMAIN projects
    /\ FreshSessionId \in SessionIds
    /\ FreshContextId \in ContextIds
    /\ nextIds' = [nextIds EXCEPT !.session = @ + 1, !.context = @ + 1]
    /\ sessions' = Extend(sessions, FreshSessionId,
                          [projectId |-> projectId,
                           contextSummary |-> NullSummary,
                           totalTokens |-> 0])
    /\ contexts' = Extend(contexts, FreshContextId,
                          NewContext(FreshContextId, FreshSessionId, projectId))
    /\ recency' = Touch(recency, FreshContextId, tie)
    /\ UNCHANGED <<appVars, genVars, cmdVars, settings, projects, nextMsgId, nextSumId, procs,
                   returned, summarizeCalls, appended, acked, lastFailed>>

\* POST /api/projects: db.createProject(project), then
\* contextManager.createContext(undefined, project.id)
CreateProject(p, tie, owners) ==
    /\ Idle(p)
    /\ Cardinality(DOMAIN sessions) + Cardinality(DOMAIN projects) < owners
    /\ FreshProjectId \in ProjectIds
    /\ FreshContextId \in ContextIds
    /\ nextIds' = [nextIds EXCEPT !.project = @ + 1, !.context = @ + 1]
    /\ projects' = Extend(projects, FreshProjectId,
                          [contextSummary |-> NullSummary, totalTokens |-> 0])
    /\ contexts' = Extend(contexts, FreshContextId,
                          NewContext(FreshContextId, None, FreshProjectId))
    /\ recency' = Touch(recency, FreshContextId, tie)
    /\ UNCHANGED <<appVars, genVars, cmdVars, settings, sessions, nextMsgId, nextSumId, procs,
                   returned, summarizeCalls, appended, acked, lastFailed>>

----------------------------------------------------------------------------
(* ContextManager: get-or-create                                           *)

\* ContextManager.getContextBySession up to its suspension: the lookup
\* and, when it finds no row, createContext(sessionId) with its insert run in
\* one stretch (the insert fails on the foreign key when the session does
\* not exist); the caller is resumed later with the context
GetContextBySession(p, sessionId, tie) ==
    /\ Idle(p)
    /\ IF dbGetContextBySession(sessionId) # {}
       THEN \E c \in dbGetContextBySession(sessionId) :
               /\ procs' = [procs EXCEPT ![p].pc = "get_return", ![p].ctxId = c,
                                         ![p].sessionId = sessionId,
                                         ![p].context = contexts[c]]
               /\ UNCHANGED <<contexts, recency, nextIds>>
       ELSE /\ sessionId \in DOMAIN sessions
            /\ FreshContextId \in ContextIds
            /\ nextIds' = [nextIds EXCEPT !.context = @ + 1]
            /\ contexts' = Extend(contexts, FreshContextId,
                                  NewContext(FreshContextId, sessionId, None))
            /\ recency' = Touch(recency, FreshContextId, tie)
            /\ procs' = [procs EXCEPT
                            ![p].pc = "get_return", ![p].ctxId = FreshContextId,
                            ![p].sessionId = sessionId,
                            ![p].context = NewContext(FreshContextId, sessionId, None)]
    /\ UNCHANGED <<appVars, genVars, cmdVars, settings, sessions, projects, nextMsgId, nextSumId,
                   returned, summarizeCalls, appended, acked, lastFailed>>

\* the caller of getContextBySession is resumed with the context
GetContextBySessionReturned(p) ==
    /\ procs[p].pc = "get_return"
    /\ returned' = [returned EXCEPT !.session[procs[p].sessionId] = @ \cup {procs[p].ctxId}]
    /\ procs' = [procs EXCEPT ![p] = IdleProc]
    /\ UNCHANGED <<appVars, genVars, cmdVars, settings, nextIds, sessions, projects, contexts,
                   recency, nextMsgId, nextSumId, summarizeCalls, appended, acked, lastFailed>>

\* ContextManager.getContextByProject up to its suspension
GetContextByProject(p, projectId, tie) ==
    /\ Idle(p)
    /\ IF dbGetContextByProject(projectId) # {}
       THEN \E c \in dbGetContextByProject(projectId) :
               /\ procs' = [procs EXCEPT ![p].pc = "getp_return", ![p].ctxId = c,
                                         ![p].projectId = projectId,
                                         ![p].context = contexts[c]]
               /\ UNCHANGED <<contexts, recency, nextIds>>
       ELSE /\ projectId \in DOMAIN projects
            /\ FreshContextId \in ContextIds
            /\ nextIds' = [nextIds EXCEPT !.context = @ + 1]
            /\ contexts' = Extend(contexts, FreshContextId,
                                  NewContext(FreshContextId, None, projectId))
            /\ recency' = Touch(recency, FreshContextId, tie)
            /\ procs' = [procs EXCEPT
                            ![p].pc = "getp_return", ![p].ctxId = FreshContextId,
                            ![p].projectId = projectId,
                            ![p].context = NewContext(FreshContextId, None, projectId)]
    /\ UNCHANGED <<appVars, genVars, cmdVars, settings, sessions, projects, nextMsgId, nextSumId,
                   returned, summarizeCalls, appended, acked, lastFailed>>

\* the caller of getContextByProject is resumed with the context
GetContextByProjectReturned(p) ==
    /\ procs[p].pc = "getp_return"
    /\ returned' = [returned EXCEPT !.project[procs[p].projectId] = @ \cup {procs[p].ctxId}]
    /\ procs' = [procs EXCEPT ![p] = IdleProc]
    /\ UNCHANGED <<appVars, genVars, cmdVars, settings, nextIds, sessions, projects, contexts,
                   recency, nextMsgId, nextSumId, summarizeCalls, appended, acked, lastFailed>>

----------------------------------------------------------------------------
(* ContextManager.addMessage                                               *)

\* addMessage up to its first suspension, for a message with the given
\* role: db.getContext(contextId) (a missing row throws 'Context not found'
\* and nothing changes), then the token counting call is sent
AddMessageCallAs(p, c, role, len, adds) ==
    /\ Idle(p)
    /\ nextMsgId <= adds
    /\ dbHasContext(c)
    /\ procs' = [procs EXCEPT ![p] =
                    [IdleProc EXCEPT !.pc = "add_count",
                                     !.ctxId = c,
                                     !.context = contexts[c],
                                     !.pre = contexts[c],
                                     !.message = [id |-> nextMsgId, role |-> role,
                                                  len |-> len, tokens |-> NoTokens,
                                                  synthetic |-> FALSE]]]
    /\ nextMsgId' = nextMsgId + 1
    /\ UNCHANGED <<appVars, genVars, cmdVars, settings, nextIds, sessions, projects, contexts, recency, nextSumId, returned,
                   summarizeCalls, appended, acked, lastFailed>>

\* addMessage called with a message of a user
AddMessageCall(p, c, len, adds) == AddMessageCallAs(p, c, "user", len, adds)

\* a summarization prompt built from the non-system messages only
summaryPromptTurnsNoSystem(messages) ==
    LET kept == messagesToContent(messages)
    IN  [i \in 1..Len(kept) |-> [role |-> kept[i].role, id |-> kept[i].id, len |-> kept[i].len]]

\* GeminiClient.summarizeContext: the conversation part of the prompt has
\* one "role: content" turn for every message it is given, in order
summaryPromptTurns(messages) ==
    [i \in 1..Len(messages) |->
        [role |-> messages[i].role, id |-> messages[i].id, len |-> messages[i].len]]

\* the push without the update of totalTokens
PushedStaleTotal(context, message, messageTokens) ==
    [context EXCEPT !.messages = Append(@, [message EXCEPT !.tokens = messageTokens])]

\* the in-memory context of addMessage after message.tokens is set and the
\* message is pushed
Pushed(context, message, messageTokens) ==
    [context EXCEPT !.messages = Append(@, [message EXCEPT !.tokens = messageTokens]),
                    !.totalTokens = @ + messageTokens]

\* the in-memory context written before summarizeContext is called
StoredBeforeSummarizeWritten(row, context) ==
    dbUpdateMessages(row, context.messages, context.totalTokens)

\* the row as addMessage leaves it when summarization is needed: the
\* in-memory context is not written before summarizeContext is called
StoredBeforeSummarize(row, context) == row

\* addMessage after countTokens resolves: push, add the tokens, then either
\* start summarizeContext (which reads the row again and sends the
\* generation call) or write messages and totalTokens and return
AddMessageCounted(p, ext, tie) ==
    /\ procs[p].pc = "add_count"
    /\ LET c == procs[p].ctxId
           messageTokens == countTokens(<<procs[p].message>>, ext)
           context == Pushed(procs[p].context, procs[p].message, messageTokens)
           stats == getContextStats(context)
       IN  /\ appended' = [appended EXCEPT ![c] = @ + messageTokens]
           /\ IF stats.needsSummarization
              THEN /\ summarizeCalls' = [summarizeCalls EXCEPT ![c] = @ + 1]
                   /\ contexts' = [contexts EXCEPT ![c] =
                                     StoredBeforeSummarize(@, context)]
                   /\ procs' = [procs EXCEPT ![p].pc = "sum_gen",
                                             ![p].context = context,
                                             ![p].message = Last(context.messages),
                                             ![p].sctx = contexts'[c],
                                             ![p].prompt =
                                                 summaryPromptTurns(contexts'[c].messages)]
                   /\ UNCHANGED <<acked, recency>>
              ELSE /\ contexts' = [contexts EXCEPT ![c] =
                                     dbUpdateMessages(@, context.messages,
                                                      context.totalTokens)]
                   /\ recency' = Touch(recency, c, tie)
                   /\ procs' = [procs EXCEPT ![p] = IdleProc]
                   /\ acked' = [acked EXCEPT ![c] = @ \cup {procs[p].message.id}]
                   /\ UNCHANGED summarizeCalls
    /\ UNCHANGED <<appVars, genVars, cmdVars, settings, nextIds, sessions, projects, nextMsgId, nextSumId, returned,
                   lastFailed>>

----------------------------------------------------------------------------
(* ContextManager.summarizeContext                                         *)

\* the call of summarizeContext was made by addMessage for its message
FromAddMessage(p) == procs[p].message.id # NullMessage.id

\* the generation call returns: on an error the catch block rethrows and
\* addMessage rejects; otherwise the summary message is built and its
\* token counting call is sent
SummaryGenerated(p, gen) ==
    /\ procs[p].pc = "sum_gen"
    /\ IF gen.ok
       THEN /\ procs' = [procs EXCEPT
                           ![p].pc = "sum_count",
                           ![p].summary = [set |-> TRUE, id |-> nextSumId, len |-> gen.len],
                           ![p].summaryMessage =
                               [id |-> nextSumId, role |-> "system",
                                len |-> SummaryWrapLen + gen.len,
                                tokens |-> NoTokens, synthetic |-> TRUE]]
            /\ nextSumId' = nextSumId + 1
            /\ UNCHANGED lastFailed
       ELSE /\ procs' = [procs EXCEPT ![p] = IdleProc]
            /\ lastFailed' = IF FromAddMessage(p)
                             THEN [lastFailed EXCEPT ![procs[p].ctxId] = procs[p].message.id]
                             ELSE lastFailed
            /\ UNCHANGED nextSumId
    /\ UNCHANGED <<appVars, genVars, cmdVars, settings, nextIds, sessions, projects, contexts, recency, nextMsgId, returned,
                   summarizeCalls, appended, acked>>

\* the messages kept by a compaction of the log
RecentMessages(messages) == SliceLast(messages, RecentCount)

\* the summary's tokens are counted: the row is rewritten as the summary
\* message followed by the recent messages, then the owner's session and
\* project records are updated
SummaryCounted(p, ext, tie) ==
    /\ procs[p].pc = "sum_count"
    /\ LET c == procs[p].ctxId
           context == procs[p].sctx
           summaryTokens == countTokens(<<procs[p].summaryMessage>>, ext)
           summaryMessage == [procs[p].summaryMessage EXCEPT !.tokens = summaryTokens]
           recentMessages == RecentMessages(context.messages)
           recentTokens == SumTokens(recentMessages)
           newMessages == <<summaryMessage>> \o recentMessages
           newTotalTokens == summaryTokens + recentTokens
       IN  /\ contexts' = [contexts EXCEPT ![c] =
                             dbUpdateSummarized(@, newMessages, procs[p].summary,
                                                newTotalTokens)]
           /\ recency' = Touch(recency, c, tie)
           /\ sessions' = IF context.sessionId # None /\ context.sessionId \in DOMAIN sessions
                          THEN [sessions EXCEPT ![context.sessionId] =
                                   [@ EXCEPT !.contextSummary = procs[p].summary,
                                             !.totalTokens = newTotalTokens]]
                          ELSE sessions
           /\ projects' = IF context.projectId # None /\ context.projectId \in DOMAIN projects
                          THEN [projects EXCEPT ![context.projectId] =
                                   [@ EXCEPT !.contextSummary = procs[p].summary,
                                             !.totalTokens = newTotalTokens]]
                          ELSE projects
           /\ procs' = [procs EXCEPT ![p] = IdleProc]
           /\ acked' = IF FromAddMessage(p)
                       THEN [acked EXCEPT ![c] = @ \cup {procs[p].message.id}]
                       ELSE acked
    /\ UNCHANGED <<appVars, genVars, cmdVars, settings, nextIds, nextMsgId, nextSumId, returned, summarizeCalls,
                   appended, lastFailed>>

\* the owner's record written although the context row could not be
OwnerOnFailedWriteUpdated(record, summary, totalTokens) ==
    [record EXCEPT !.contextSummary = summary, !.totalTokens = totalTokens]

\* the owner's record when db.updateContext throws: updateSession and
\* updateProject come after it in the try block and are not reached
OwnerOnFailedWrite(record, summary, totalTokens) == record

\* the summary's tokens are counted but db.updateContext throws (the
\* database cannot write): the catch block rethrows, addMessage rejects
SummaryWriteFailed(p, ext) ==
    /\ procs[p].pc = "sum_count"
    /\ LET c == procs[p].ctxId
           context == procs[p].sctx
           summaryTokens == countTokens(<<procs[p].summaryMessage>>, ext)
           newTotalTokens == summaryTokens + SumTokens(RecentMessages(context.messages))
       IN  /\ sessions' = IF context.sessionId # None /\ context.sessionId \in DOMAIN sessions
                          THEN [sessions EXCEPT ![context.sessionId] =
                                   OwnerOnFailedWrite(@, procs[p].summary, newTotalTokens)]
                          ELSE sessions
           /\ projects' = IF context.projectId # None /\ context.projectId \in DOMAIN projects
                          THEN [projects EXCEPT ![context.projectId] =
                                   OwnerOnFailedWrite(@, procs[p].summary, newTotalTokens)]
                          ELSE projects
           /\ lastFailed' = IF FromAddMessage(p)
                            THEN [lastFailed EXCEPT ![c] = procs[p].message.id]
                            ELSE lastFailed
           /\ procs' = [procs EXCEPT ![p] = IdleProc]
    /\ UNCHANGED <<appVars, genVars, cmdVars, settings, nextIds, contexts, recency, nextMsgId, nextSumId, returned,
                   summarizeCalls, appended, acked>>

----------------------------------------------------------------------------
(* ContextManager.resetContext                                             *)

\* db.updateContext(contextId, {messages: [], summary: undefined, totalTokens: 0});
\* an UPDATE of a missing row changes nothing and raises no error
ResetContext(p, c, tie) ==
    /\ Idle(p)
    /\ dbHasContext(c)
    /\ contexts' = [contexts EXCEPT ![c] = dbUpdateSummarized(@, <<>>, NullSummary, 0)]
    /\ recency' = Touch(recency, c, tie)
    /\ acked' = [acked EXCEPT ![c] = {}]
    /\ appended' = [appended EXCEPT ![c] = 0]
    /\ summarizeCalls' = [summarizeCalls EXCEPT ![c] = 0]
    /\ UNCHANGED <<appVars, genVars, cmdVars, settings, nextIds, sessions, projects, nextMsgId, nextSumId, procs,
                   returned, lastFailed>>

\* DELETE /api/chat/sessions/:id, DatabaseManager.deleteSession: the
\* foreign keys delete the contexts and the tasks of the session; deleting
\* an id that has no row changes nothing
DeleteSession(sessionId) ==
    /\ sessionId \in DOMAIN sessions
    /\ LET kept == {c \in DOMAIN contexts : contexts[c].sessionId # sessionId}
       IN  /\ contexts' = [c \in kept |-> contexts[c]]
           /\ recency' = Compact([i \in 1..Len(recency) |-> recency[i] \cap kept])
    /\ sessions' = [s \in DOMAIN sessions \ {sessionId} |-> sessions[s]]
    /\ tasks' = [t \in {t \in DOMAIN tasks : tasks[t].sessionId # sessionId} |-> tasks[t]]
    /\ UNCHANGED <<route, analyses, genVars, cmdVars, settings, nextIds, projects, nextMsgId,
                   nextSumId, procs, returned, summarizeCalls, appended, acked, lastFailed>>

----------------------------------------------------------------------------
(* Specifications                                                          *)

\* concurrent callers of the operations on the contexts of sessions
Next ==
    \/ \E p \in Procs, tie \in BOOLEAN : CreateSession(p, None, tie, MaxSessions)
    \/ \E p \in Procs, s \in SessionIds, tie \in BOOLEAN : GetContextBySession(p, s, tie)
    \/ \E p \in Procs : GetContextBySessionReturned(p)
    \/ \E p \in Procs, c \in ContextIds, len \in LenChoices : AddMessageCall(p, c, len, MaxAdds)
    \/ \E p \in Procs, ext \in ExtOutcomes, tie \in BOOLEAN : AddMessageCounted(p, ext, tie)
    \/ \E p \in Procs, gen \in GenOutcomes : SummaryGenerated(p, gen)
    \/ \E p \in Procs, ext \in ExtOutcomes, tie \in BOOLEAN : SummaryCounted(p, ext, tie)
    \/ \E p \in Procs, c \in ContextIds, tie \in BOOLEAN : ResetContext(p, c, tie)

Spec == Init /\ [][Next]_vars

\* one caller creating sessions and projects and looking up their contexts
OwnerNext ==
    \/ \E p \in SeqProcs, r \in {None} \cup ProjectIds, tie \in BOOLEAN :
          CreateSession(p, r, tie, MaxOwners)
    \/ \E p \in SeqProcs, tie \in BOOLEAN : CreateProject(p, tie, MaxOwners)
    \/ \E p \in SeqProcs, s \in SessionIds, tie \in BOOLEAN : GetContextBySession(p, s, tie)
    \/ \E p \in SeqProcs : GetContextBySessionReturned(p)
    \/ \E p \in SeqProcs, r \in ProjectIds, tie \in BOOLEAN : GetContextByProject(p, r, tie)
    \/ \E p \in SeqProcs : GetContextByProjectReturned(p)
    \/ \E s \in SessionIds : DeleteSession(s)
    \/ \E p \in SeqProcs, c \in ContextIds, tie \in BOOLEAN : ResetContext(p, c, tie)

OwnerSpec == Init /\ [][OwnerNext]_vars

\* one caller of the operations on the context of a session: every call
\* returns before the next one is made
SeqNext ==
    \/ \E p \in SeqProcs, tie \in BOOLEAN : CreateSession(p, None, tie, MaxSessions)
    \/ \E p \in SeqProcs, c \in ContextIds, len \in LenChoices :
          AddMessageCall(p, c, len, MaxSeqAdds)
    \/ \E p \in SeqProcs, ext \in SeqExtOutcomes, tie \in BOOLEAN : AddMessageCounted(p, ext, tie)
    \/ \E p \in SeqProcs, gen \in GenOutcomes : SummaryGenerated(p, gen)
    \/ \E p \in SeqProcs, ext \in SeqExtOutcomes, tie \in BOOLEAN : SummaryCounted(p, ext, tie)
    \/ \E p \in SeqProcs, c \in ContextIds, tie \in BOOLEAN : ResetContext(p, c, tie)

SeqSpec == Init /\ [][SeqNext]_vars

\* one caller appending 60-token turns to the context of a single session,
\* with a budget of 1000 tokens
ScenarioInit == InitWith(ScenarioMaxTokensChoices)

ScenarioNext ==
    \/ \E p \in SeqProcs, tie \in BOOLEAN :
          DOMAIN sessions = {} /\ CreateSession(p, None, tie, MaxSessions)
    \/ \E p \in SeqProcs, c \in ContextIds, len \in ScenarioLenChoices :
          AddMessageCall(p, c, len, MaxScenarioAdds)
    \/ \E p \in SeqProcs, ext \in ScenarioExtOutcomes, tie \in BOOLEAN :
          AddMessageCounted(p, ext, tie)
    \/ \E p \in SeqProcs, gen \in ScenarioGenOutcomes : SummaryGenerated(p, gen)
    \/ \E p \in SeqProcs, ext \in ScenarioExtOutcomes, tie \in BOOLEAN :
          SummaryCounted(p, ext, tie)

ScenarioSpec == ScenarioInit /\ [][ScenarioNext]_vars

\* one caller appending to the contexts of the sessions of at most one
\* project, over a database whose writes may fail during a compaction
StoreNext ==
    \/ \E p \in SeqProcs, tie \in BOOLEAN :
          DOMAIN projects = {} /\ CreateProject(p, tie, MaxSessions + 1)
    \/ \E p \in SeqProcs, r \in {None} \cup ProjectIds, tie \in BOOLEAN :
          CreateSession(p, r, tie, MaxSessions + Cardinality(DOMAIN projects))
    \/ \E p \in SeqProcs, c \in ContextIds, len \in LenChoices :
          AddMessageCall(p, c, len, MaxAdds)
    \/ \E p \in SeqProcs, ext \in ApiExtOutcomes, tie \in BOOLEAN : AddMessageCounted(p, ext, tie)
    \/ \E p \in SeqProcs, gen \in GenOutcomes : SummaryGenerated(p, gen)
    \/ \E p \in SeqProcs, ext \in ApiExtOutcomes, tie \in BOOLEAN : SummaryCounted(p, ext, tie)
    \/ \E p \in SeqProcs, ext \in ApiExtOutcomes : SummaryWriteFailed(p, ext)
    \/ \E p \in SeqProcs, c \in ContextIds, tie \in BOOLEAN : ResetContext(p, c, tie)

StoreSpec == Init /\ [][StoreNext]_vars

----------------------------------------------------------------------------
(* ContextManager called with any context id                               *)

\* the limits callers pass to getMessagesForGeneration: none, or a number
LimitChoices == {None, 1}

\* addMessage with an id that has no row: db.getContext returns null and
\* the call rejects with 'Context not found' before anything else
AddMessageNotFound(p, c) ==
    /\ Idle(p)
    /\ ~dbHasContext(c)
    /\ procs' = [procs EXCEPT ![p].pc = "not_found", ![p].ctxId = c]
    /\ UNCHANGED <<appVars, genVars, cmdVars, settings, nextIds, sessions, projects, contexts, recency, nextMsgId, nextSumId,
                   returned, summarizeCalls, appended, acked, lastFailed>>

\* summarizeContext with an id that has no row: rejects with 'Context not
\* found' before the try block
SummarizeContextNotFound(p, c) ==
    /\ Idle(p)
    /\ ~dbHasContext(c)
    /\ procs' = [procs EXCEPT ![p].pc = "not_found", ![p].ctxId = c]
    /\ UNCHANGED <<appVars, genVars, cmdVars, settings, nextIds, sessions, projects, contexts, recency, nextMsgId, nextSumId,
                   returned, summarizeCalls, appended, acked, lastFailed>>

\* summarizeContext called by itself with the id of a stored row: the row
\* is read and the generation call is sent with its messages
SummarizeContextCall(p, c) ==
    /\ Idle(p)
    /\ dbHasContext(c)
    /\ nextSumId <= MaxDirectSummaries
    /\ procs' = [procs EXCEPT ![p] =
                    [IdleProc EXCEPT !.pc = "sum_gen",
                                     !.ctxId = c,
                                     !.context = contexts[c],
                                     !.pre = contexts[c],
                                     !.sctx = contexts[c],
                                     !.prompt = summaryPromptTurns(contexts[c].messages)]]
    /\ UNCHANGED <<appVars, genVars, cmdVars, settings, nextIds, sessions, projects, contexts,
                   recency, nextMsgId, nextSumId, returned, summarizeCalls, appended, acked,
                   lastFailed>>

\* getMessagesForGeneration: the stored messages, the last `limit` of them
\* when a limit is given and exceeded; rejects when the row is missing
GetMessagesForGeneration(p, c, limit) ==
    /\ Idle(p)
    /\ IF dbHasContext(c)
       THEN LET messages == contexts[c].messages
            IN  procs' = [procs EXCEPT
                            ![p].pc = "resolved",
                            ![p].ctxId = c,
                            ![p].context =
                                [contexts[c] EXCEPT !.messages =
                                    IF limit # None /\ Len(messages) > limit
                                    THEN SliceLast(messages, limit)
                                    ELSE messages]]
       ELSE procs' = [procs EXCEPT ![p].pc = "not_found", ![p].ctxId = c]
    /\ UNCHANGED <<appVars, genVars, cmdVars, settings, nextIds, sessions, projects, contexts, recency, nextMsgId, nextSumId,
                   returned, summarizeCalls, appended, acked, lastFailed>>

\* !!context.summary: a missing summary and the empty text are both false
hasSummary(summary) == summary.set /\ summary.len > 0

\* getContextSummary: counts, hasSummary and summary of the stored row;
\* rejects when the row is missing
GetContextSummary(p, c) ==
    /\ Idle(p)
    /\ IF dbHasContext(c)
       THEN procs' = [procs EXCEPT ![p].pc = "resolved",
                                   ![p].ctxId = c,
                                   ![p].context = contexts[c],
                                   ![p].summary = contexts[c].summary,
                                   ![p].hasSummary = hasSummary(contexts[c].summary)]
       ELSE procs' = [procs EXCEPT ![p].pc = "not_found", ![p].ctxId = c]
    /\ UNCHANGED <<appVars, genVars, cmdVars, settings, nextIds, sessions, projects, contexts, recency, nextMsgId, nextSumId,
                   returned, summarizeCalls, appended, acked, lastFailed>>

\* resetContext with an id that has no row: db.updateContext runs an UPDATE
\* that matches no row and raises nothing, and the call resolves
ResetContextMissing(p, c) ==
    /\ Idle(p)
    /\ ~dbHasContext(c)
    /\ procs' = [procs EXCEPT ![p].pc = "resolved", ![p].ctxId = c]
    /\ UNCHANGED <<appVars, genVars, cmdVars, settings, nextIds, sessions, projects, contexts, recency, nextMsgId, nextSumId,
                   returned, summarizeCalls, appended, acked, lastFailed>>

\* the caller takes the result or the error of its call
Settle(p) ==
    /\ procs[p].pc \in {"resolved", "not_found"}
    /\ procs' = [procs EXCEPT ![p] = IdleProc]
    /\ UNCHANGED <<appVars, genVars, cmdVars, settings, nextIds, sessions, projects, contexts, recency, nextMsgId, nextSumId,
                   returned, summarizeCalls, appended, acked, lastFailed>>

\* one caller of the ContextManager operations, with the ids of stored
\* contexts and with ids that have no row
ApiNext ==
    \/ \E p \in SeqProcs, tie \in BOOLEAN : CreateSession(p, None, tie, MaxSessions)
    \/ \E p \in SeqProcs, c \in ContextIds, len \in LenChoices :
          AddMessageCall(p, c, len, MaxAdds)
    \/ \E p \in SeqProcs, ext \in AnyExtOutcomes, tie \in BOOLEAN : AddMessageCounted(p, ext, tie)
    \/ \E p \in SeqProcs, gen \in ApiGenOutcomes : SummaryGenerated(p, gen)
    \/ \E p \in SeqProcs, ext \in AnyExtOutcomes, tie \in BOOLEAN : SummaryCounted(p, ext, tie)
    \/ \E p \in SeqProcs, c \in ContextIds, tie \in BOOLEAN : ResetContext(p, c, tie)
    \/ \E p \in SeqProcs, c \in ContextIds : AddMessageNotFound(p, c)
    \/ \E p \in SeqProcs, c \in ContextIds : SummarizeContextNotFound(p, c)
    \/ \E p \in SeqProcs, c \in ContextIds : SummarizeContextCall(p, c)
    \/ \E p \in SeqProcs, c \in ContextIds, limit \in LimitChoices :
          GetMessagesForGeneration(p, c, limit)
    \/ \E p \in SeqProcs, c \in ContextIds : GetContextSummary(p, c)
    \/ \E p \in SeqProcs, c \in ContextIds : ResetContextMissing(p, c)
    \/ \E p \in SeqProcs : Settle(p)

ApiSpec == InitWith(AnyMaxTokensChoices) /\ [][ApiNext]_vars

----------------------------------------------------------------------------
(* Concurrent getContextBySession for a session that lost its context      *)

\* DatabaseManager.deleteProject: the foreign keys delete the contexts and
\* the tasks of the project and set project_id of its sessions to NULL, so
\* a session created in the project is left without a context
DeleteProject(projectId) ==
    /\ projectId \in DOMAIN projects
    /\ LET kept == {c \in DOMAIN contexts : contexts[c].projectId # projectId}
       IN  /\ contexts' = [c \in kept |-> contexts[c]]
           /\ recency' = Compact([i \in 1..Len(recency) |-> recency[i] \cap kept])
    /\ projects' = [r \in DOMAIN projects \ {projectId} |-> projects[r]]
    /\ sessions' = [s \in DOMAIN sessions |->
                       IF sessions[s].projectId = projectId
                       THEN [sessions[s] EXCEPT !.projectId = None]
                       ELSE sessions[s]]
    /\ tasks' = [t \in {t \in DOMAIN tasks : tasks[t].projectId # projectId} |-> tasks[t]]
    /\ UNCHANGED <<route, analyses, genVars, cmdVars, settings, nextIds, nextMsgId, nextSumId, procs,
                   returned, summarizeCalls, appended, acked, lastFailed>>

\* two callers looking up the contexts of the sessions of a project that is
\* deleted while no call is in progress
LazyNext ==
    \/ \E p \in SeqProcs, tie \in BOOLEAN :
          /\ DOMAIN sessions = {}
          /\ CreateProject(p, tie, 1)
    \/ \E p \in SeqProcs, r \in ProjectIds, tie \in BOOLEAN :
          CreateSession(p, r, tie, MaxOwners)
    \/ \E r \in ProjectIds : (\A p \in Procs : Idle(p)) /\ DeleteProject(r)
    \/ \E p \in Procs, s \in SessionIds, tie \in BOOLEAN : GetContextBySession(p, s, tie)
    \/ \E p \in Procs : GetContextBySessionReturned(p)

LazySpec == Init /\ [][LazyNext]_vars

----------------------------------------------------------------------------
(* POST /api/chat/sessions/:id/messages                                    *)

\* requests served where the send-message route is driven
MaxRequests == 2

\* contextStats of the response: getContextStats of the context object the
\* route got from getContextBySession before it added the two messages
contextStatsOfResponse(context) == getContextStats(context)

\* the route up to the return of getContextBySession: the session must
\* exist (404 otherwise); the context is looked up and created when missing
SendMessage(p, sessionId, tie) ==
    /\ route.pc \in {"none", "responded", "failed"}
    /\ Idle(p)
    /\ nextMsgId + 1 <= 2 * MaxRequests
    /\ sessionId \in DOMAIN sessions
    /\ IF dbGetContextBySession(sessionId) # {}
       THEN \E c \in dbGetContextBySession(sessionId) :
               /\ route' = [NoRoute EXCEPT !.pc = "user_add", !.sessionId = sessionId,
                                           !.context = contexts[c], !.from = nextMsgId]
               /\ UNCHANGED <<contexts, recency, nextIds>>
       ELSE /\ FreshContextId \in ContextIds
            /\ nextIds' = [nextIds EXCEPT !.context = @ + 1]
            /\ contexts' = Extend(contexts, FreshContextId,
                                  NewContext(FreshContextId, sessionId, None))
            /\ recency' = Touch(recency, FreshContextId, tie)
            /\ route' = [NoRoute EXCEPT !.pc = "user_add", !.sessionId = sessionId,
                                        !.context = contexts'[FreshContextId],
                                        !.from = nextMsgId]
    /\ UNCHANGED <<tasks, analyses, genVars, cmdVars, settings, sessions, projects, nextMsgId,
                   nextSumId, procs, returned, summarizeCalls, appended, acked, lastFailed>>

\* the roles a request body gives to its message; 'user' when it gives none
RoleChoices == {"user", "assistant", "system"}

\* the route calls addMessage(context.id, message) for the user message,
\* with the role of the request body, or for the assistant message
RouteAddMessage(p, role, len) ==
    /\ route.pc \in {"user_add", "assistant_add"}
    /\ route.pc = "assistant_add" => role = "assistant"
    /\ nextMsgId = route.from
    /\ AddMessageCallAs(p, route.context.id, role, len, 2 * MaxRequests)

\* the awaited addMessage settles: after the user message the messages for
\* generation are read and the generation call is sent; after the assistant
\* message the session's messages are saved and the response is sent; a
\* rejected addMessage is answered with status 500
MessageAdded(p) ==
    /\ route.pc \in {"user_add", "assistant_add"}
    /\ nextMsgId > route.from
    /\ Idle(p)
    /\ route' = IF route.from \notin acked[route.context.id]
                THEN [route EXCEPT !.pc = "failed"]
                ELSE IF route.pc = "user_add"
                     THEN [route EXCEPT !.pc = "generate"]
                     ELSE [route EXCEPT
                              !.pc = "responded",
                              !.stats = [totalTokens |->
                                             contextStatsOfResponse(route.context).totalTokens,
                                         messagesCount |->
                                             contextStatsOfResponse(route.context).messagesCount]]
    /\ UNCHANGED <<tasks, analyses, genVars, cmdVars, ctxVars>>

\* gemini.generateResponse settles: the assistant message is built, or the
\* request is answered with status 500
ResponseGenerated(gen) ==
    /\ route.pc = "generate"
    /\ route' = IF gen.ok
                THEN [route EXCEPT !.pc = "assistant_add", !.from = nextMsgId]
                ELSE [route EXCEPT !.pc = "failed"]
    /\ UNCHANGED <<tasks, analyses, genVars, cmdVars, ctxVars>>

\* one client sending messages to its sessions, one request at a time
SendNext ==
    \/ \E p \in SeqProcs, tie \in BOOLEAN : CreateSession(p, None, tie, MaxSessions)
    \/ \E p \in SeqProcs, s \in SessionIds, tie \in BOOLEAN : SendMessage(p, s, tie)
    \/ \E p \in SeqProcs, role \in RoleChoices, len \in LenChoices :
          RouteAddMessage(p, role, len)
    \/ \E p \in SeqProcs, ext \in ApiExtOutcomes, tie \in BOOLEAN : AddMessageCounted(p, ext, tie)
    \/ \E p \in SeqProcs, gen \in GenOutcomes : SummaryGenerated(p, gen)
    \/ \E p \in SeqProcs, ext \in ApiExtOutcomes, tie \in BOOLEAN : SummaryCounted(p, ext, tie)
    \/ \E p \in SeqProcs : MessageAdded(p)
    \/ \E gen \in GenOutcomes : ResponseGenerated(gen)

SendSpec == Init /\ [][SendNext]_vars

----------------------------------------------------------------------------
(* CoordinatorAgent.analyzeProject and the tasks table                     *)

\* analyzeProject calls made
MaxAnalyses == 2

\* numbers of tasks in the structured output of an analysis
TaskCountChoices == {1, 2}

\* the id given to the task at position index of an analysis: `task-${index + 1}`
\* with index counted from 0, so positions 1, 2, ... get task-1, task-2, ...
TaskId(analysis, position) == position

\* DatabaseManager.createTask accepts the row: the id is not yet a primary
\* key of the table, the session of the task exists, and its project exists
\* unless project_id is NULL (task.projectId || null)
Insertable(rows, id, sessionId, projectId) ==
    /\ id \notin DOMAIN rows
    /\ sessionId \in DOMAIN sessions
    /\ projectId = None \/ projectId \in DOMAIN projects

\* the rows after the loop 'for (const task of tasks) this.db.createTask(task)'
\* over the tasks at positions from..n: the first insert that fails throws
\* and ends the loop, the rows inserted before it stay
RECURSIVE SaveTasks(_, _, _, _, _, _)
SaveTasks(rows, a, sessionId, projectId, from, n) ==
    IF from > n \/ ~Insertable(rows, TaskId(a, from), sessionId, projectId)
    THEN rows
    ELSE SaveTasks(Extend(rows, TaskId(a, from),
                          [id |-> TaskId(a, from), sessionId |-> sessionId,
                           projectId |-> projectId, status |-> "pending",
                           analysis |-> a]),
                   a, sessionId, projectId, from + 1, n)

\* POST /api/agent/analyze with the sessionId and the projectId of the
\* request body (None when it has no projectId): analyzeProject builds the
\* messages and sends the structured generation call
AnalyzeProject(sessionId, projectId) ==
    /\ Cardinality(DOMAIN analyses) < MaxAnalyses
    /\ analyses' = Extend(analyses, Cardinality(DOMAIN analyses) + 1,
                          [pc |-> "generating", sessionId |-> sessionId,
                           projectId |-> projectId, stored |-> 0])
    /\ UNCHANGED <<route, tasks, genVars, cmdVars, ctxVars>>

\* the structured output arrives with n tasks: the Task objects are built
\* with status 'pending' and saved one by one; when every insert succeeded
\* the analysis is returned, otherwise 'Failed to analyze project' is thrown
StructuredOutputResolved(a, n) ==
    /\ a \in DOMAIN analyses
    /\ analyses[a].pc = "generating"
    /\ tasks' = SaveTasks(tasks, a, analyses[a].sessionId, analyses[a].projectId, 1, n)
    /\ LET stored == Cardinality({t \in DOMAIN tasks' : tasks'[t].analysis = a})
       IN  analyses' = [analyses EXCEPT ![a].stored = stored,
                                        ![a].pc = IF stored = n THEN "returned" ELSE "threw"]
    /\ UNCHANGED <<route, genVars, cmdVars, ctxVars>>

\* the structured generation call fails: 'Failed to analyze project' is thrown
StructuredOutputRejected(a) ==
    /\ a \in DOMAIN analyses
    /\ analyses[a].pc = "generating"
    /\ analyses' = [analyses EXCEPT ![a].pc = "threw"]
    /\ UNCHANGED <<route, tasks, genVars, cmdVars, ctxVars>>

\* POST /api/agent/execute-task: the agent's executeTask ends and sets the
\* status of the task with updateTask
TaskExecuted(t, status) ==
    /\ t \in DOMAIN tasks
    /\ tasks' = [tasks EXCEPT ![t].status = status]
    /\ UNCHANGED <<route, analyses, genVars, cmdVars, ctxVars>>

\* clients creating and deleting sessions and projects and asking for
\* analyses, with the ids of stored rows and with ids that have no row
TaskNext ==
    \/ \E p \in SeqProcs, tie \in BOOLEAN : CreateSession(p, None, tie, MaxSessions)
    \/ \E p \in SeqProcs, tie \in BOOLEAN :
          DOMAIN projects = {} /\ CreateProject(p, tie, MaxSessions + 1)
    \/ \E s \in 1..(MaxSessions + 1), r \in {None} \cup (1..(MaxSessions + 1)) :
          AnalyzeProject(s, r)
    \/ \E a \in 1..MaxAnalyses, n \in TaskCountChoices : StructuredOutputResolved(a, n)
    \/ \E a \in 1..MaxAnalyses : StructuredOutputRejected(a)
    \/ \E t \in DOMAIN tasks, status \in {"completed", "failed"} : TaskExecuted(t, status)
    \/ \E s \in SessionIds : DeleteSession(s)
    \/ \E r \in ProjectIds : DeleteProject(r)

TaskSpec == Init /\ [][TaskNext]_vars

----------------------------------------------------------------------------
(* CommandTools                                                            *)

\* commands are sequences of characters; a pattern is a sequence of
\* elements: a literal text, \s+ or .*
Lit(text) == [k |-> "lit", text |-> text]
Spaces == [k |-> "spaces", text |-> <<>>]
AnyChars == [k |-> "any", text |-> <<>>]

\* characters written by their code points
VT == "U+000B"
NBSP == "U+00A0"
LS == "U+2028"
PS == "U+2029"
BOM == "U+FEFF"

\* the characters \s matches
WhiteSpace ==
    {" ", "\t", "\n", "\r", "\f", VT, NBSP, LS, PS, BOM, "U+1680", "U+2000", "U+2001",
     "U+2002", "U+2003", "U+2004", "U+2005", "U+2006", "U+2007", "U+2008", "U+2009",
     "U+200A", "U+202F", "U+205F", "U+3000"}

\* the line terminators, which . does not match
LineTerminators == {"\n", "\r", LS, PS}

\* \s
IsSpace(ch) == ch \in WhiteSpace

\* the pattern matches the command from position i on
RECURSIVE MatchAt(_, _, _)
MatchAt(command, i, pattern) ==
    IF pattern = <<>> THEN TRUE
    ELSE LET e == Head(pattern)
             n == Len(e.text)
         IN  CASE e.k = "lit" ->
                    /\ i + n - 1 <= Len(command)
                    /\ SubSeq(command, i, i + n - 1) = e.text
                    /\ MatchAt(command, i + n, Tail(pattern))
               [] e.k = "spaces" ->
                    \E j \in (i + 1)..(Len(command) + 1) :
                        /\ \A x \in i..(j - 1) : IsSpace(command[x])
                        /\ MatchAt(command, j, Tail(pattern))
               [] e.k = "any" ->
                    \E j \in i..(Len(command) + 1) :
                        /\ \A x \in i..(j - 1) : command[x] \notin LineTerminators
                        /\ MatchAt(command, j, Tail(pattern))

\* RegExp.prototype.test without flags: a match anywhere in the command
Test(pattern, command) == \E i \in 1..(Len(command) + 1) : MatchAt(command, i, pattern)

\* CommandTools.dangerousPatterns
dangerousPatterns ==
    <<
        <<Lit(<<"r", "m">>), Spaces, Lit(<<"-", "r", "f">>)>>,
        <<Lit(<<"r", "m">>), Spaces, AnyChars, Lit(<<"*">>)>>,
        <<Lit(<<"s", "u", "d", "o">>)>>,
        <<Lit(<<"d", "d">>), Spaces, Lit(<<"i", "f", "=">>)>>,
        <<Lit(<<"m", "k", "f", "s">>)>>,
        <<Lit(<<"f", "d", "i", "s", "k">>)>>,
        <<Lit(<<">", "/", "d", "e", "v", "/">>)>>,
        <<Lit(<<"c", "h", "m", "o", "d">>), Spaces, Lit(<<"-", "R">>), Spaces, Lit(<<"7", "7", "7">>)>>,
        <<Lit(<<"c", "h", "o", "w", "n">>), Spaces, Lit(<<"-", "R">>)>>,
        <<Lit(<<"k", "i", "l", "l">>), Spaces, Lit(<<"-", "9">>)>>,
        <<Lit(<<"p", "k", "i", "l", "l">>)>>,
        <<Lit(<<"s", "h", "u", "t", "d", "o", "w", "n">>)>>,
        <<Lit(<<"r", "e", "b", "o", "o", "t">>)>>,
        <<Lit(<<"i", "p", "t", "a", "b", "l", "e", "s">>)>>,
        <<Lit(<<"g", "i", "t">>), Spaces, Lit(<<"p", "u", "s", "h">>), AnyChars, Lit(<<"-", "-", "f", "o", "r", "c", "e">>)>>,
        <<Lit(<<"n", "p", "m">>), Spaces, Lit(<<"p", "u", "b", "l", "i", "s", "h">>)>>,
        <<Lit(<<"d", "o", "c", "k", "e", "r">>), AnyChars, Lit(<<"r", "m">>), AnyChars, Lit(<<"-", "f">>)>>
    >>

\* CommandTools.isDangerous
isDangerous(command) ==
    \E i \in 1..Len(dangerousPatterns) : Test(dangerousPatterns[i], command)

\* 'ls -la'
CmdList == <<"l", "s", " ", "-", "l", "a">>

\* 'sudo ls'
CmdSudo == <<"s", "u", "d", "o", " ", "l", "s">>
\* 'rm  -rf build'
CmdRemove == <<"r", "m", " ", " ", "-", "r", "f", " ", "b", "u", "i", "l", "d">>
\* 'rm  -rf' with a space and a no-break space
CmdRemoveNbsp == <<"r", "m", " ", NBSP, "-", "r", "f">>
\* 'docker' and 'rm -f' with a line separator between them
CmdDockerLs == <<"d", "o", "c", "k", "e", "r", LS, "r", "m", " ", "-", "f">>

\* the commands clients send
CommandChoices == {CmdList, CmdSudo, CmdRemove, CmdRemoveNbsp, CmdDockerLs}

\* pending commands requested, and commands executed directly
MaxCommands == 2
MaxDirect == 1

\* requestCommand: the command is stored as pending under a fresh id with
\* its danger flag (POST /api/commands/request)
RequestCommand(command) ==
    /\ nextCmdId <= MaxCommands
    /\ pendingCommands' = Extend(pendingCommands, nextCmdId,
                                 [id |-> nextCmdId, command |-> command,
                                  dangerous |-> isDangerous(command)])
    /\ nextCmdId' = nextCmdId + 1
    /\ UNCHANGED <<appVars, genVars, ctxVars, runs, cmdResult>>

\* the ways execAsync settles: it resolves, or it rejects with an error
\* whose code is the exit status of the shell, the code of a spawn error,
\* or missing (the process was killed)
ExecOutcomes ==
    {[ok |-> TRUE, code |-> Undefined],
     [ok |-> FALSE, code |-> Number(1)],
     [ok |-> FALSE, code |-> Number(127)],
     [ok |-> FALSE, code |-> Text("ENOENT")],
     [ok |-> FALSE, code |-> Undefined]}

\* exitCode of the result of executeCommand: 0, or error.code || 1
exitCodeOf(outcome) ==
    IF outcome.ok THEN Number(0)
    ELSE IF outcome.code \in {Undefined, Number(0), Text("")} THEN Number(1)
    ELSE outcome.code

\* the id is left in the pending map
DeletePendingKept(pending, id) == pending

\* this.pendingCommands.delete(id)
DeletePending(pending, id) == [x \in DOMAIN pending \ {id} |-> pending[x]]

\* the timer set by requestCommand fires: the pending command is deleted
ExpireCommand(id) ==
    /\ id \in DOMAIN pendingCommands
    /\ pendingCommands' = DeletePending(pendingCommands, id)
    /\ UNCHANGED <<appVars, genVars, ctxVars, nextCmdId, runs, cmdResult>>

\* executeConfirmedCommand (POST /api/commands/execute) up to its
\* suspension: an id that is not pending throws 'Command not found or
\* expired'; when not confirmed the id is deleted and the result is the
\* cancellation with exitCode -1; otherwise the id is deleted and the
\* command is handed to the shell by executeCommand, which waits for it
ExecuteConfirmedCommand(id, confirmed) ==
    /\ IF id \notin DOMAIN pendingCommands
       THEN /\ cmdResult' = [id |-> id, outcome |-> "not_found", exitCode |-> Number(0)]
            /\ UNCHANGED <<pendingCommands, runs>>
       ELSE /\ pendingCommands' = DeletePending(pendingCommands, id)
            /\ IF confirmed
               THEN /\ runs' = Append(runs, [command |-> pendingCommands[id].command,
                                             id |-> id, confirmed |-> TRUE,
                                             running |-> TRUE])
                    /\ UNCHANGED cmdResult
               ELSE /\ runs' = runs
                    /\ cmdResult' = [id |-> id, outcome |-> "cancelled",
                                     exitCode |-> Number(-1)]
    /\ UNCHANGED <<appVars, genVars, ctxVars, nextCmdId>>

\* executeCommand called by POST /api/commands/execute-direct: the command
\* is handed to the shell
ExecuteCommand(command) ==
    /\ Len(SelectSeq(runs, LAMBDA r : r.id = None)) < MaxDirect
    /\ runs' = Append(runs, [command |-> command, id |-> None, confirmed |-> FALSE,
                             running |-> TRUE])
    /\ UNCHANGED <<appVars, genVars, ctxVars, pendingCommands, nextCmdId, cmdResult>>

\* execAsync settles and executeCommand returns its result; the caller of
\* executeConfirmedCommand is resumed with it
CommandFinished(i, outcome) ==
    /\ i \in 1..Len(runs)
    /\ runs[i].running
    /\ runs' = [runs EXCEPT ![i].running = FALSE]
    /\ cmdResult' = IF runs[i].id # None
                    THEN [id |-> runs[i].id, outcome |-> "executed",
                          exitCode |-> exitCodeOf(outcome)]
                    ELSE cmdResult
    /\ UNCHANGED <<appVars, genVars, ctxVars, pendingCommands, nextCmdId>>

CmdNext ==
    \/ \E command \in CommandChoices : RequestCommand(command)
    \/ \E id \in 1..MaxCommands : ExpireCommand(id)
    \/ \E id \in 1..MaxCommands, confirmed \in BOOLEAN : ExecuteConfirmedCommand(id, confirmed)
    \/ \E command \in CommandChoices : ExecuteCommand(command)
    \/ \E i \in 1..(MaxCommands + MaxDirect), outcome \in ExecOutcomes :
          CommandFinished(i, outcome)

CmdSpec == Init /\ [][CmdNext]_vars

\* the clients of POST /api/commands/request and POST /api/commands/execute
ConfirmNext ==
    \/ \E command \in CommandChoices : RequestCommand(command)
    \/ \E id \in 1..MaxCommands : ExpireCommand(id)
    \/ \E id \in 1..MaxCommands, confirmed \in BOOLEAN : ExecuteConfirmedCommand(id, confirmed)
    \/ \E i \in 1..MaxCommands, outcome \in ExecOutcomes : CommandFinished(i, outcome)

ConfirmSpec == Init /\ [][ConfirmNext]_vars

----------------------------------------------------------------------------
(* GeminiClient.generateResponse                                           *)

MaxGenCalls == 2

\* whether GEMINI_API_KEY_SECONDARY is set
SecondaryChoices == BOOLEAN

\* the client generateResponse takes its model from:
\* this.client.getGenerativeModel(...), the client of the primary key
GenerationClient(key) == "primary"

\* generateResponse is called: the prompt is built and generateContent is
\* sent on the generation client
GenerateResponse(thinking) ==
    /\ Cardinality(DOMAIN genCalls) < MaxGenCalls
    /\ genCalls' = Extend(genCalls, Cardinality(DOMAIN genCalls) + 1,
                          [pc |-> "generating",
                           modelName |-> IF thinking
                                         THEN "gemini-2.0-flash-thinking-exp"
                                         ELSE "gemini-2.0-flash-exp",
                           clients |-> <<GenerationClient(currentApiKey)>>])
    /\ UNCHANGED <<appVars, ctxVars, cmdVars, secondaryClient, currentApiKey>>

\* generateContent resolves: the text is taken and countTokens(messages)
\* is sent
GenerateContentResolved(g) ==
    /\ g \in DOMAIN genCalls
    /\ genCalls[g].pc = "generating"
    /\ genCalls' = [genCalls EXCEPT ![g].pc = "count_input"]
    /\ UNCHANGED <<appVars, ctxVars, cmdVars, secondaryClient, currentApiKey>>

\* the input tokens are counted (countTokens never throws): countTokens of
\* the response text is sent
InputCounted(g) ==
    /\ g \in DOMAIN genCalls
    /\ genCalls[g].pc = "count_input"
    /\ genCalls' = [genCalls EXCEPT ![g].pc = "count_output"]
    /\ UNCHANGED <<appVars, ctxVars, cmdVars, secondaryClient, currentApiKey>>

\* the output tokens are counted: the response is returned
OutputCounted(g) ==
    /\ g \in DOMAIN genCalls
    /\ genCalls[g].pc = "count_output"
    /\ genCalls' = [genCalls EXCEPT ![g].pc = "returned"]
    /\ UNCHANGED <<appVars, ctxVars, cmdVars, secondaryClient, currentApiKey>>

\* a switch that leaves currentApiKey as it is
switchApiKeyNoChange(key) == key

\* GeminiClient.switchApiKey (called with a secondary client configured):
\* currentApiKey becomes 'secondary'
switchApiKey(key) == "secondary"

\* generateContent rejects: on the primary key with a secondary client,
\* switchApiKey and generateResponse again; otherwise the error is thrown
GenerateContentRejected(g) ==
    /\ g \in DOMAIN genCalls
    /\ genCalls[g].pc = "generating"
    /\ IF currentApiKey = "primary" /\ secondaryClient
       THEN /\ currentApiKey' = switchApiKey(currentApiKey)
            /\ genCalls' = [genCalls EXCEPT
                              ![g].clients = Append(@, GenerationClient(currentApiKey'))]
       ELSE /\ genCalls' = [genCalls EXCEPT ![g].pc = "threw"]
            /\ UNCHANGED currentApiKey
    /\ UNCHANGED <<appVars, ctxVars, cmdVars, secondaryClient>>

GenInit == InitAll(MaxTokensChoices, SecondaryChoices)

GenNext ==
    \/ \E thinking \in BOOLEAN : GenerateResponse(thinking)
    \/ \E g \in 1..MaxGenCalls : GenerateContentResolved(g)
    \/ \E g \in 1..MaxGenCalls : InputCounted(g)
    \/ \E g \in 1..MaxGenCalls : OutputCounted(g)
    \/ \E g \in 1..MaxGenCalls : GenerateContentRejected(g)

GenSpec == GenInit /\ [][GenNext]_vars

\* a pending promise of a generateResponse call settles
Settles(g) ==
    \/ GenerateContentResolved(g)
    \/ GenerateContentRejected(g)
    \/ InputCounted(g)
    \/ OutputCounted(g)

\* the calls where every request to the API is answered or fails
GenLiveSpec == GenSpec /\ \A g \in 1..MaxGenCalls : WF_vars(Settles(g))

----------------------------------------------------------------------------
(* Steps of a call that its caller observes                                *)

\* addMessage resolves: after the plain write, or after the compaction
AddMessageReturned(p) ==
    /\ procs[p].pc \in {"add_count", "sum_count"}
    /\ procs'[p].pc = "idle"
    /\ procs[p].message.id \in acked'[procs[p].ctxId]

\* addMessage rejects with the error of the summary generation
AddMessageThrew(p) ==
    /\ procs[p].pc = "sum_gen"
    /\ procs'[p].pc = "idle"

\* summarizeContext writes the compacted log, with its new summary
Compacted(p) ==
    /\ procs[p].pc = "sum_count"
    /\ procs'[p].pc = "idle"
    /\ contexts' # contexts

\* summarizeContext rejects because the context row could not be written
CompactionWriteFailed(p) ==
    /\ procs[p].pc = "sum_count"
    /\ procs'[p].pc = "idle"
    /\ contexts' = contexts

AllIdle == \A p \in Procs : Idle(p)

MessageIds(c) == {contexts[c].messages[i].id : i \in 1..Len(contexts[c].messages)}

----------------------------------------------------------------------------
(* Claims                                                                  *)

\* C1: after every addMessage call, compacting or not, the stored
\* totalTokens of a context is the sum of the tokens of its stored messages.
C1_TotalTokensIsSum ==
    \A c \in DOMAIN contexts :
        contexts[c].totalTokens = SumTokens(contexts[c].messages)

\* a compacted log that was appended to afterwards
C1_Witness ==
    \E c \in DOMAIN contexts :
        /\ Len(contexts[c].messages) >= 3
        /\ contexts[c].messages[1].synthetic
        /\ Last(contexts[c].messages).id \in acked[c]
        /\ contexts[c].totalTokens > contexts[c].messages[1].tokens

\* C2: when addMessage(contextId, m) returns without error, m is the last
\* message of the stored log of that context, with its tokens counted.
C2_ReturnedMessageIsStored ==
    [][\A p \in Procs :
          AddMessageReturned(p) =>
              LET stored == contexts'[procs[p].ctxId].messages
              IN  /\ stored # <<>>
                  /\ Last(stored).id = procs[p].message.id
                  /\ ~Last(stored).synthetic
                  /\ Last(stored).tokens # NoTokens]_vars

\* C3 as stated: with maxTokens = 100, appends to an empty context summing
\* to 89 cause no summarizeContext call and appends summing to 95 cause
\* exactly one.
C3_ExactlyOneAt95 ==
    \A c \in DOMAIN contexts :
        (AllIdle /\ contexts[c].maxTokens = 100) =>
            /\ appended[c] = 89 => summarizeCalls[c] = 0
            /\ appended[c] = 95 => summarizeCalls[c] = 1

\* C3 amended: addMessage calls summarizeContext exactly when the total
\* after adding the new message's tokens is at least 9/10 of maxTokens;
\* with maxTokens = 100, appends to an empty context summing to at most 89
\* cause no call and appends summing to 90 or more cause at least one.
C3_TriggerAtThreshold ==
    [][/\ \A p \in Procs :
             (procs[p].pc = "add_count" /\ procs'[p].pc # "add_count") =>
                 LET c == procs[p].ctxId
                     total == contexts[c].totalTokens + (appended'[c] - appended[c])
                 IN  /\ summarizeCalls'[c] \in {summarizeCalls[c], summarizeCalls[c] + 1}
                     /\ (summarizeCalls'[c] = summarizeCalls[c] + 1) <=>
                            (total * ThresholdDen >= ThresholdNum * contexts[c].maxTokens)
                     /\ (procs'[p].pc = "sum_gen") <=>
                            (summarizeCalls'[c] = summarizeCalls[c] + 1)
       /\ (\A p \in Procs : procs[p].pc # "add_count") =>
             \A c \in DOMAIN contexts : summarizeCalls'[c] <= summarizeCalls[c]
       /\ \A c \in DOMAIN contexts' :
             contexts'[c].maxTokens = 100 =>
                 /\ appended'[c] <= 89 => summarizeCalls'[c] = 0
                 /\ appended'[c] >= 90 => summarizeCalls'[c] >= 1]_vars

\* appends summing to 95 on a budget of 100, with a compaction call made
C3_Witness ==
    \E c \in DOMAIN contexts :
        /\ AllIdle
        /\ contexts[c].maxTokens = 100
        /\ appended[c] = 95
        /\ summarizeCalls[c] >= 1

\* C4: with maxTokens = 1000 and 60-token turns appended one at a time, no
\* compaction call is made before the 15th append, and after the 15th
\* append has compacted the log it is the summary followed by turns 6..15,
\* with totalTokens = summary tokens + 600.
C4_Scenario ==
    \A c \in DOMAIN contexts :
        /\ nextMsgId <= 15 => summarizeCalls[c] = 0
        /\ (AllIdle /\ nextMsgId = 16 /\ lastFailed[c] = 0) =>
              LET log == contexts[c].messages
              IN  /\ summarizeCalls[c] = 1
                  /\ Len(log) = 11
                  /\ log[1].synthetic
                  /\ \A i \in 2..11 : log[i].id = i + 4 /\ log[i].tokens = 60
                  /\ contexts[c].totalTokens = log[1].tokens + 600

\* C5: a compaction writes the summary message followed by the last 10
\* turns of the log as it stood before the compaction, the turn whose
\* append crossed the threshold included, unchanged and in order.
C5_KeepsLastTenWithNewTurn ==
    [][\A p \in Procs :
          Compacted(p) =>
              LET stored == contexts'[procs[p].ctxId].messages
              IN  /\ stored # <<>>
                  /\ stored[1].synthetic
                  /\ Tail(stored) = SliceLast(procs[p].context.messages, RecentCount)]_vars

\* C6: when the summary generation errors, the stored messages and
\* totalTokens of the context are what they were before the addMessage
\* call, and the caller is free to call again.
C6_FailureLeavesContext ==
    [][\A p \in Procs :
          AddMessageThrew(p) =>
              LET c == procs[p].ctxId
              IN  /\ c \in DOMAIN contexts'
                  /\ contexts'[c].messages = procs[p].pre.messages
                  /\ contexts'[c].totalTokens = procs[p].pre.totalTokens
                  /\ contexts'[c].maxTokens = procs[p].pre.maxTokens
                  /\ procs'[p] = IdleProc]_vars

\* a context whose compaction failed and that took a later append
C6_Witness ==
    \E c \in DOMAIN contexts :
        /\ lastFailed[c] > 0
        /\ \E m \in acked[c] : m > lastFailed[c] /\ m \in MessageIds(c)

\* C7: when the compaction fails inside addMessage the append completes:
\* the call does not reject, and the stored log is the existing turns plus
\* the newly appended turn.
C7_FailedCompactionKeepsAppend ==
    [][\A p \in Procs :
          (procs[p].pc = "sum_gen" /\ procs'[p].pc = "idle") =>
              LET c == procs[p].ctxId
              IN  /\ lastFailed'[c] = lastFailed[c]
                  /\ procs[p].message.id \in acked'[c]
                  /\ contexts'[c].messages = procs[p].context.messages]_vars

\* C8: concurrent addMessage calls that each cross the threshold of one
\* context make one compaction pass: no two summarizeContext calls are in
\* progress on the same context.
C8_OneCompactionInFlight ==
    \A p, q \in Procs :
        (/\ p # q
         /\ procs[p].pc \in {"sum_gen", "sum_count"}
         /\ procs[q].pc \in {"sum_gen", "sum_count"})
            => procs[p].ctxId # procs[q].ctxId

\* C9: addMessage calls on one context are serialized: while the context
\* has not been compacted or reset, every message whose addMessage has
\* returned is in the stored log and totalTokens accounts for it.
C9_NoLostUpdate ==
    \A c \in DOMAIN contexts :
        summarizeCalls[c] = 0 =>
            /\ acked[c] \subseteq MessageIds(c)
            /\ AllIdle => contexts[c].totalTokens = appended[c]

\* C10: get-or-create is idempotent: every getContextBySession call for a
\* session returns the same context id, and every getContextByProject call
\* for a project returns the same context id.
C10_GetOrCreateIdempotent ==
    /\ \A s \in SessionIds : Cardinality(returned.session[s]) <= 1
    /\ \A r \in ProjectIds : Cardinality(returned.project[r]) <= 1

\* C11: every context row has exactly one of sessionId and projectId set.
C11_ExactlyOneOwner ==
    \A c \in DOMAIN contexts :
        (contexts[c].sessionId # None) # (contexts[c].projectId # None)

\* C12: contexts are isolated per owner: a context returned by
\* getContextByProject is not the context of a session, and no context is
\* returned both for a project and for a session.
C12_OwnersIsolated ==
    /\ \A r \in ProjectIds : \A c \in returned.project[r] : contexts[c].sessionId = None
    /\ \A r \in ProjectIds, s \in SessionIds :
          returned.project[r] \cap returned.session[s] = {}

\* C13: resetContext leaves the stored context with no messages, no
\* summary and totalTokens 0, and keeps id, sessionId, projectId and
\* maxTokens.
C13_ResetClears ==
    [][\A p \in Procs, c \in ContextIds, tie \in BOOLEAN :
          ResetContext(p, c, tie) =>
              /\ contexts'[c].messages = <<>>
              /\ ~contexts'[c].summary.set
              /\ contexts'[c].totalTokens = 0
              /\ contexts'[c].id = contexts[c].id
              /\ contexts'[c].sessionId = contexts[c].sessionId
              /\ contexts'[c].projectId = contexts[c].projectId
              /\ contexts'[c].maxTokens = contexts[c].maxTokens]_vars

\* C14: every stored context is within its token limit:
\* totalTokens <= maxTokens.
C14_WithinLimit ==
    \A c \in DOMAIN contexts : contexts[c].totalTokens <= contexts[c].maxTokens

\* C15: a failure of the external token counting call never fails
\* addMessage or summarizeContext: when the counting call of a message
\* settles, with a count or with an exception, the call goes on (to the
\* write or to the compaction) and the message carries a non-negative
\* integer count.
C15_CountingNeverFails ==
    [][\A p \in Procs :
          /\ (procs[p].pc = "add_count" /\ procs'[p].pc # "add_count") =>
                LET c == procs[p].ctxId
                IN  \/ /\ procs'[p].pc = "sum_gen"
                       /\ procs'[p].message.tokens \in Nat
                    \/ /\ procs'[p].pc = "idle"
                       /\ procs[p].message.id \in acked'[c]
                       /\ Last(contexts'[c].messages).id = procs[p].message.id
                       /\ Last(contexts'[c].messages).tokens \in Nat
          /\ (procs[p].pc = "sum_count" /\ procs'[p].pc # "sum_count") =>
                LET c == procs[p].ctxId
                IN  /\ procs'[p].pc = "idle"
                    /\ procs[p].message.id \in acked'[c]
                    /\ contexts'[c].messages[1].synthetic
                    /\ contexts'[c].messages[1].tokens \in Nat]_vars

\* C15 witness: a stored message whose count is the local estimate
\* ceil(length / 4) (the external call threw) and whose addMessage returned,
\* and a stored summary message counted by the local estimate.
C15_Witness ==
    \E c \in DOMAIN contexts :
        /\ Len(contexts[c].messages) >= 2
        /\ contexts[c].messages[1].synthetic
        /\ contexts[c].messages[1].tokens =
               CeilDiv(contexts[c].messages[1].len, CharsPerToken)
        /\ \E i \in 2..Len(contexts[c].messages) :
              /\ contexts[c].messages[i].tokens =
                     CeilDiv(contexts[c].messages[i].len, CharsPerToken)
              /\ contexts[c].messages[i].id \in acked[c]

\* C16: every ContextManager operation called with an id that has no
\* stored context reports a not-found error and leaves the store unchanged.
C16_UnknownIdNotFound ==
    [][\A p \in Procs, c \in ContextIds :
          (/\ ~dbHasContext(c)
           /\ Idle(p)
           /\ procs'[p].pc \in {"resolved", "not_found"}
           /\ procs'[p].ctxId = c)
              => /\ procs'[p].pc = "not_found"
                 /\ contexts' = contexts]_vars

\* C17: a command that matches a dangerous pattern is handed to the shell
\* only by an executeConfirmedCommand call with confirmed = true for a
\* pending command holding it.
C17_DangerousNeedsConfirmation ==
    \A i \in 1..Len(runs) :
        isDangerous(runs[i].command) => (runs[i].id # None /\ runs[i].confirmed)

\* C18: when a generation attempt fails on the primary key and a secondary
\* key is configured, generateResponse retries, and the retry is sent on
\* the secondary key's client.
C18_RetryUsesSecondary ==
    [][\A g \in DOMAIN genCalls :
          (/\ genCalls[g].pc = "generating"
           /\ currentApiKey = "primary"
           /\ secondaryClient
           /\ genCalls'[g] # genCalls[g])
              => \/ genCalls'[g].pc = "count_input"
                 \/ /\ genCalls'[g].pc = "generating"
                    /\ Len(genCalls'[g].clients) = Len(genCalls[g].clients) + 1
                    /\ Last(genCalls'[g].clients) = "secondary"]_vars

\* C19: a summary generation that returns an empty text counts as a
\* failed compaction: the stored log, summary and totalTokens are left as
\* they were.
C19_EmptySummaryNotWritten ==
    [][\A p \in Procs :
          (Compacted(p) /\ procs[p].summary.len = 0) =>
              contexts'[procs[p].ctxId] = contexts[procs[p].ctxId]]_vars

\* C20: a compaction that triggers on a stored log of fewer than 11
\* messages is a no-op: no summary is written and the messages and
\* totalTokens stay as they were.
C20_ShortLogNoOp ==
    [][\A p \in Procs :
          (Compacted(p) /\ Len(contexts[procs[p].ctxId].messages) <= RecentCount) =>
              LET c == procs[p].ctxId
              IN  /\ contexts'[c].messages = contexts[c].messages
                  /\ contexts'[c].totalTokens = contexts[c].totalTokens
                  /\ contexts'[c].summary = contexts[c].summary]_vars

\* C21: the owner's session or project record takes a compaction's
\* contextSummary and totalTokens only in a step that has written the
\* context row with them, and when the write of the context row fails the
\* owner records stay as they were and addMessage rejects.
C21_OwnerAfterContextRow ==
    [][/\ \A s \in DOMAIN sessions :
             sessions'[s] # sessions[s] =>
                 \E c \in DOMAIN contexts :
                     /\ contexts[c].sessionId = s
                     /\ contexts'[c] # contexts[c]
                     /\ contexts'[c].summary = sessions'[s].contextSummary
                     /\ contexts'[c].totalTokens = sessions'[s].totalTokens
       /\ \A r \in DOMAIN projects :
             projects'[r] # projects[r] =>
                 \E c \in DOMAIN contexts :
                     /\ contexts[c].projectId = r
                     /\ contexts'[c] # contexts[c]
                     /\ contexts'[c].summary = projects'[r].contextSummary
                     /\ contexts'[c].totalTokens = projects'[r].totalTokens
       /\ \A p \in Procs :
             CompactionWriteFailed(p) =>
                 /\ contexts' = contexts
                 /\ sessions' = sessions
                 /\ projects' = projects
                 /\ lastFailed'[procs[p].ctxId] = procs[p].message.id]_vars

\* C21 witness: the context of a session of a project was compacted and
\* both owner records carry its summary and total, and the write of a later
\* compaction of it failed (its summary number was used, the row and the
\* records still carry the earlier one).
C21_Witness ==
    \E c \in DOMAIN contexts :
        /\ contexts[c].sessionId # None
        /\ contexts[c].projectId # None
        /\ contexts[c].summary.set
        /\ sessions[contexts[c].sessionId].contextSummary = contexts[c].summary
        /\ projects[contexts[c].projectId].contextSummary = contexts[c].summary
        /\ projects[contexts[c].projectId].totalTokens = contexts[c].totalTokens
        /\ lastFailed[c] # 0
        /\ contexts[c].summary.id + 1 < nextSumId
        /\ AllIdle

\* C22: no addMessage, summarizeContext or resetContext step changes the
\* maxTokens, sessionId or projectId of a stored context.
C22_CreationFieldsKept ==
    [][\A c \in DOMAIN contexts :
          /\ c \in DOMAIN contexts'
          /\ contexts'[c].maxTokens = contexts[c].maxTokens
          /\ contexts'[c].sessionId = contexts[c].sessionId
          /\ contexts'[c].projectId = contexts[c].projectId]_vars

\* C22 witness: the context of a session of a project has been compacted
\* by an addMessage, then reset, and then a further message has been
\* appended to it.
C22_Witness ==
    \E c \in DOMAIN contexts :
        /\ contexts[c].sessionId # None
        /\ contexts[c].projectId # None
        /\ contexts[c].maxTokens \in MaxTokensChoices
        /\ contexts[c].summary.set
        /\ Len(contexts[c].messages) = 1
        /\ ~contexts[c].messages[1].synthetic
        /\ AllIdle

\* C23: while a compaction waits for the summarizer, the prompt it sent
\* has one turn for every message of the stored log, in order, so a summary
\* message at the head of the log is in it like any other turn.
C23_EarlierSummaryInPrompt ==
    \A p \in Procs :
        procs[p].pc = "sum_gen" =>
            LET messages == contexts[procs[p].ctxId].messages
                prompt == procs[p].prompt
            IN  /\ Len(prompt) = Len(messages)
                /\ \A i \in 1..Len(messages) :
                      /\ prompt[i].id = messages[i].id
                      /\ prompt[i].role = messages[i].role
                      /\ prompt[i].len = messages[i].len

\* C23 witness: a compaction of a log that starts with a summary message
\* is waiting for the summarizer.
C23_Witness ==
    \E p \in Procs :
        /\ procs[p].pc = "sum_gen"
        /\ contexts[procs[p].ctxId].messages # <<>>
        /\ contexts[procs[p].ctxId].messages[1].synthetic
        /\ contexts[procs[p].ctxId].messages[1].role = "system"
        /\ procs[p].prompt[1].role = "system"

\* C24: a successful compaction stores its summary in the context's summary
\* field, an append that does not compact leaves the field as it was, and
\* getContextSummary reports hasSummary = true exactly when the field of
\* the stored context is set.
C24_SummaryFieldReported ==
    [][\A p \in Procs :
          /\ Compacted(p) =>
                /\ contexts'[procs[p].ctxId].summary.set
                /\ contexts'[procs[p].ctxId].summary = procs[p].summary
          /\ (AddMessageReturned(p) /\ ~Compacted(p)) =>
                contexts'[procs[p].ctxId].summary = contexts[procs[p].ctxId].summary
          /\ \A c \in DOMAIN contexts :
                GetContextSummary(p, c) =>
                    (procs'[p].hasSummary <=> contexts[c].summary.set)]_vars

\* C25: the contextStats of a send-message response give the totalTokens
\* and the messagesCount of the stored context after the user message and
\* the assistant message of the request have been added.
C25_StatsAfterBothMessages ==
    route.pc = "responded" =>
        /\ route.stats.totalTokens = contexts[route.context.id].totalTokens
        /\ route.stats.messagesCount = Len(contexts[route.context.id].messages)

\* C26: the log of every stored context holds at most one synthetic summary
\* message, and a summary message in the log is its first message.
C26_OneSummaryMessageFirst ==
    \A c \in DOMAIN contexts :
        \A i \in 1..Len(contexts[c].messages) :
            contexts[c].messages[i].synthetic => i = 1

\* C27: when two getContextBySession calls for the same session are in
\* progress together, the session has exactly one context row and both
\* calls return the id of that row.
C27_ConcurrentGetCreatesOne ==
    \A p \in Procs, q \in Procs :
        (/\ p # q
         /\ procs[p].pc = "get_return"
         /\ procs[q].pc = "get_return"
         /\ procs[p].sessionId = procs[q].sessionId)
            => /\ procs[p].ctxId = procs[q].ctxId
               /\ {c \in DOMAIN contexts : contexts[c].sessionId = procs[p].sessionId}
                      = {procs[p].ctxId}

\* C27 witness: two calls are in progress for a session whose context was
\* deleted with its project, and the row they return was created by one of
\* them.
C27_Witness ==
    \E p \in Procs, q \in Procs, s \in DOMAIN sessions :
        /\ p # q
        /\ procs[p].pc = "get_return"
        /\ procs[q].pc = "get_return"
        /\ procs[p].sessionId = s
        /\ procs[q].sessionId = s
        /\ projects = <<>>
        /\ procs[p].ctxId \in DOMAIN contexts
        /\ contexts[procs[p].ctxId].projectId = None

\* C28: every executeConfirmedCommand call for an id that is not pending
\* fails with the not-found error and runs nothing; a call for a pending id
\* removes the id and either runs its command once (confirmed) or returns
\* the cancellation with exitCode -1 and runs nothing; no id has more than
\* one run.
C28_AtMostOneExecution ==
    [][/\ \A id \in 1..MaxCommands, confirmed \in BOOLEAN :
             ExecuteConfirmedCommand(id, confirmed) =>
                 IF id \in DOMAIN pendingCommands
                 THEN /\ id \notin DOMAIN pendingCommands'
                      /\ confirmed =>
                            /\ Len(runs') = Len(runs) + 1
                            /\ Last(runs').id = id
                            /\ Last(runs').command = pendingCommands[id].command
                      /\ ~confirmed =>
                            /\ cmdResult'.outcome = "cancelled"
                            /\ cmdResult'.exitCode = Number(-1)
                            /\ runs' = runs
                 ELSE /\ cmdResult'.outcome = "not_found"
                      /\ cmdResult'.id = id
                      /\ runs' = runs
                      /\ pendingCommands' = pendingCommands
       /\ \A i \in 1..Len(runs), outcome \in ExecOutcomes :
             (CommandFinished(i, outcome) /\ runs[i].id # None) =>
                 /\ cmdResult'.outcome = "executed"
                 /\ cmdResult'.id = runs[i].id
                 /\ Len(runs') = Len(runs)
       /\ \A id \in 1..MaxCommands :
             Cardinality({i \in 1..Len(runs') : runs'[i].id = id}) <= 1]_vars

\* C28 witness: a command was handed to the shell under its id and is still
\* running, a command was cancelled and is not pending any more, and the
\* last call, for the id that is running, failed with the not-found error.
C28_Witness ==
    /\ cmdResult.outcome = "not_found"
    /\ \E i \in 1..Len(runs) : runs[i].id = cmdResult.id /\ runs[i].running
    /\ \E id \in 1..MaxCommands :
          /\ id < nextCmdId
          /\ id \notin DOMAIN pendingCommands
          /\ \A i \in 1..Len(runs) : runs[i].id # id

\* C29: no generateResponse call makes more than two generation attempts;
\* a failed attempt with currentApiKey 'primary' and a secondary key
\* configured switches currentApiKey to 'secondary' and makes one more
\* attempt; a failed attempt with currentApiKey 'secondary' throws without
\* another attempt; currentApiKey never goes back to 'primary'; and every
\* call ends by returning or throwing.
C29_AtMostTwoAttempts ==
    /\ [][/\ \A g \in DOMAIN genCalls' : Len(genCalls'[g].clients) <= 2
          /\ currentApiKey = "secondary" => currentApiKey' = "secondary"
          /\ \A g \in DOMAIN genCalls :
                (genCalls[g].pc = "generating" /\ GenerateContentRejected(g)) =>
                    IF currentApiKey = "primary" /\ secondaryClient
                    THEN /\ currentApiKey' = "secondary"
                         /\ Len(genCalls'[g].clients) = Len(genCalls[g].clients) + 1
                         /\ genCalls'[g].pc = "generating"
                    ELSE /\ genCalls'[g].pc = "threw"
                         /\ genCalls'[g].clients = genCalls[g].clients
                         /\ currentApiKey' = currentApiKey]_vars
    /\ \A g \in 1..MaxGenCalls :
          (g \in DOMAIN genCalls) ~>
              (g \in DOMAIN genCalls /\ genCalls[g].pc \in {"returned", "threw"})

\* C29 witness: with a secondary key configured, one call threw after two
\* attempts and a call made on the secondary key threw after one attempt.
C29_Witness ==
    /\ secondaryClient
    /\ currentApiKey = "secondary"
    /\ \E g \in DOMAIN genCalls, h \in DOMAIN genCalls :
          /\ genCalls[g].pc = "threw"
          /\ Len(genCalls[g].clients) = 2
          /\ genCalls[h].pc = "threw"
          /\ Len(genCalls[h].clients) = 1

\* C30: every analysis whose structured output arrives for an existing
\* session, and for an existing project or none, is returned with all of
\* its tasks stored (the task ids of different analyses do not collide),
\* and each of them is stored with status 'pending'.
C30_EveryAnalysisStoresItsTasks ==
    [][\A a \in DOMAIN analyses, n \in TaskCountChoices :
          (/\ StructuredOutputResolved(a, n)
           /\ analyses[a].sessionId \in DOMAIN sessions
           /\ analyses[a].projectId \in {None} \cup DOMAIN projects) =>
              /\ analyses'[a].pc = "returned"
              /\ analyses'[a].stored = n
              /\ \A t \in DOMAIN tasks' :
                    tasks'[t].analysis = a => tasks'[t].status = "pending"]_vars

====
